---- MODULE Spec2Model ----
(***************************************************************************)
(* A model of the SpinLock<T> of src/lib.rs: one AtomicBool flag `locked`, *)
(* the payload in an UnsafeCell, the two acquisition loops lock_with_swap  *)
(* and lock_with_cas, the Guard with Deref / DerefMut / Drop, and the      *)
(* unsafe unlock.  Client threads follow the shape of the tests: acquire,  *)
(* push items to a Vec payload through the Guard, let the Guard drop.      *)
(*                                                                         *)
(* Memory ordering is modelled with views: `cell` is the modification      *)
(* order of the payload, vis[t] the newest payload write that              *)
(* happens-before thread t's next step, flagview the view a release store  *)
(* attached to the flag.  An acquire load of the flag joins flagview into  *)
(* the reader's view; a read of the payload that is not ordered after the  *)
(* newest write is a data race and may return any write from the thread's  *)
(* view onward.                                                            *)
(***************************************************************************)
EXTENDS Integers, Sequences, FiniteSets, TLC

\* ---------------------------------------------------------------- bounds
NThreads == 2
MaxPush == 3
MaxNest == 1
MaxUnlock == 1

Threads == 1..NThreads

VARIABLES
    locked,     \* SpinLock.locked : AtomicBool
    cell,       \* SpinLock.value  : every value stored to the UnsafeCell, oldest first
    flagview,   \* payload view carried by the flag's current release sequence
    vis,        \* vis[t]: index in cell of the newest write visible to thread t
    pc,         \* pc[t]: where thread t is
    guards,     \* guards[t]: number of live Guards owned by thread t
    seen,       \* seen[t]: payload as last observed through t's Guard
    first,      \* first[t]: value of done[t] when thread t's current Guard was obtained
    done,       \* done[t]: items thread t has pushed
    bypassed,   \* unlock was called while a Guard was live
    unlocks     \* number of calls of unlock so far

vars == <<locked, cell, flagview, vis, pc, guards, seen, first, done, bypassed, unlocks>>

\* ------------------------------------------------------------- helpers
Max(a, b) == IF a >= b THEN a ELSE b

\* the current content of the UnsafeCell
value == cell[Len(cell)]

\* no reference to the payload is held
NoRef == << <<0, 0, 0>> >>

RECURSIVE SumOver(_, _)
SumOver(f, S) ==
    IF S = {} THEN 0
    ELSE LET x == CHOOSE y \in S : TRUE IN f[x] + SumOver(f, S \ {x})

LiveGuards == SumOver(guards, Threads)
Owners == {t \in Threads : guards[t] > 0}
InCall(t) == pc[t] \in {"swap", "spin", "cas", "cas_retry"}

\* -------------------------------------------------- atomics and orderings
\* a swap that always reports Held
swap_reports_held(cur, val) == [prev |-> TRUE, now |-> val]

\* a swap that loses the previous value and always reports Free
swap_reports_free(cur, val) == [prev |-> FALSE, now |-> val]

\* AtomicBool::swap: writes val unconditionally, returns the previous value
swap(cur, val) == [prev |-> cur, now |-> val]

\* a compare-exchange that does not compare
compare_exchange_no_compare(cur, expected, new, spurious) ==
    IF ~spurious
    THEN [ok |-> TRUE, now |-> new]
    ELSE [ok |-> FALSE, now |-> cur]

\* AtomicBool::compare_exchange_weak: may fail although cur = expected
compare_exchange_weak(cur, expected, new, spurious) ==
    IF cur = expected /\ ~spurious
    THEN [ok |-> TRUE, now |-> new]
    ELSE [ok |-> FALSE, now |-> cur]

SwapOrdering == "Acquire"
CasSuccessOrdering == "Acquire"
CasFailureOrdering == "Relaxed"
\* a Guard::drop that stores with Ordering::Relaxed
DropOrderingRelaxed == "Relaxed"

DropOrdering == "Release"
UnlockOrdering == "Release"

\* the view of thread t after a load of the flag with ordering ord
LoadView(ord, t) == IF ord = "Acquire" THEN Max(vis[t], flagview) ELSE vis[t]
\* the view a store of the flag by thread t with ordering ord attaches to it
StoreView(ord, t) == IF ord = "Release" THEN vis[t] ELSE 0

\* the values a read of the payload by thread t may return
Readable(t) == {cell[k] : k \in vis[t]..Len(cell)}

\* ------------------------------------------------------------------ Init
\* the payload the tests construct the lock with: Vec::new()
InitialValue == <<>>

\* a constructor that starts with the flag Held
SpinLock_new_held(v) == [locked |-> TRUE, value |-> v]

\* SpinLock::new
SpinLock_new(v) == [locked |-> FALSE, value |-> v]

\* SpinLock::new(Vec::new()), then shared with the spawned threads
Init ==
    /\ locked = SpinLock_new(InitialValue).locked
    /\ cell = <<SpinLock_new(InitialValue).value>>
    /\ flagview = 1
    /\ vis = [t \in Threads |-> 1]
    /\ pc = [t \in Threads |-> "idle"]
    /\ guards = [t \in Threads |-> 0]
    /\ seen = [t \in Threads |-> NoRef]
    /\ first = [t \in Threads |-> 0]
    /\ done = [t \in Threads |-> 0]
    /\ bypassed = FALSE
    /\ unlocks = 0

\* --------------------------------------------------------------- actions
\* thread t calls lock_with_swap (m = "swap") or lock_with_cas (m = "cas")
Call(t, m) ==
    /\ pc[t] = "idle"
    /\ pc' = [pc EXCEPT ![t] = m]
    /\ UNCHANGED <<locked, cell, flagview, vis, guards, seen, first, done, bypassed, unlocks>>

\* thread t calls an acquisition operation while it owns a live Guard
Reenter(t, m) ==
    /\ pc[t] = "cs"
    /\ guards[t] >= 1
    /\ guards[t] <= MaxNest
    /\ pc' = [pc EXCEPT ![t] = m]
    /\ UNCHANGED <<locked, cell, flagview, vis, guards, seen, first, done, bypassed, unlocks>>

\* one evaluation of the loop condition of lock_with_swap
SwapAttempt(t) ==
    /\ pc[t] = "swap"
    /\ LET r == swap(locked, TRUE) IN
        /\ locked' = r.now
        /\ vis' = [vis EXCEPT ![t] = LoadView(SwapOrdering, t)]
        /\ IF r.prev
           THEN /\ pc' = [pc EXCEPT ![t] = "spin"]
                /\ guards' = guards
           ELSE /\ pc' = [pc EXCEPT ![t] = "cs"]
                /\ guards' = [guards EXCEPT ![t] = @ + 1]
    /\ UNCHANGED <<cell, flagview, seen, first, done, bypassed, unlocks>>

\* the loop body of lock_with_swap: std::hint::spin_loop()
SpinHint(t) ==
    /\ pc[t] = "spin"
    /\ pc' = [pc EXCEPT ![t] = "swap"]
    /\ UNCHANGED <<locked, cell, flagview, vis, guards, seen, first, done, bypassed, unlocks>>

\* one evaluation of the loop condition of lock_with_cas
CasAttempt(t) ==
    /\ pc[t] = "cas"
    /\ \E spurious \in BOOLEAN :
        LET r == compare_exchange_weak(locked, FALSE, TRUE, spurious) IN
        /\ locked' = r.now
        /\ IF r.ok
           THEN /\ vis' = [vis EXCEPT ![t] = LoadView(CasSuccessOrdering, t)]
                /\ pc' = [pc EXCEPT ![t] = "cs"]
                /\ guards' = [guards EXCEPT ![t] = @ + 1]
           ELSE /\ vis' = [vis EXCEPT ![t] = LoadView(CasFailureOrdering, t)]
                /\ pc' = [pc EXCEPT ![t] = "cas_retry"]
                /\ guards' = guards
    /\ UNCHANGED <<cell, flagview, seen, first, done, bypassed, unlocks>>

\* the loop body of lock_with_cas: empty
CasRetry(t) ==
    /\ pc[t] = "cas_retry"
    /\ pc' = [pc EXCEPT ![t] = "cas"]
    /\ UNCHANGED <<locked, cell, flagview, vis, guards, seen, first, done, bypassed, unlocks>>

\* Guard::deref: a shared reference to the payload, read
Deref(t) ==
    /\ pc[t] = "cs"
    /\ guards[t] >= 1
    /\ \E v \in Readable(t) : seen' = [seen EXCEPT ![t] = v]
    /\ UNCHANGED <<locked, cell, flagview, vis, pc, guards, first, done, bypassed, unlocks>>

\* Guard::deref_mut, first half of Vec::push: read the vector
PushRead(t) ==
    /\ pc[t] = "cs"
    /\ guards[t] >= 1
    /\ SumOver(done, Threads) < MaxPush
    /\ \E v \in Readable(t) : seen' = [seen EXCEPT ![t] = v]
    /\ pc' = [pc EXCEPT ![t] = "push"]
    /\ UNCHANGED <<locked, cell, flagview, vis, guards, first, done, bypassed, unlocks>>

\* second half of Vec::push: store the vector with the item appended
PushWrite(t) ==
    /\ pc[t] = "push"
    /\ LET new == Append(seen[t], <<t, first[t], done[t] + 1>>) IN
        /\ cell' = Append(cell, new)
        /\ seen' = [seen EXCEPT ![t] = new]
    /\ vis' = [vis EXCEPT ![t] = Len(cell) + 1]
    /\ done' = [done EXCEPT ![t] = @ + 1]
    /\ pc' = [pc EXCEPT ![t] = "cs"]
    /\ UNCHANGED <<locked, flagview, guards, first, bypassed, unlocks>>

\* a Guard::drop that forgets the store
DropGuard_no_store(t) ==
    /\ guards[t] >= 1
    /\ locked' = locked
    /\ flagview' = flagview
    /\ guards' = [guards EXCEPT ![t] = @ - 1]
    /\ seen' = [seen EXCEPT ![t] = NoRef]

\* Guard::drop: store(false, Release)
DropGuard(t) ==
    /\ guards[t] >= 1
    /\ locked' = FALSE
    /\ flagview' = StoreView(DropOrdering, t)
    /\ guards' = [guards EXCEPT ![t] = @ - 1]
    /\ seen' = [seen EXCEPT ![t] = NoRef]

\* the Guard of thread t goes out of scope at the end of its block
ScopeEnd(t) ==
    /\ pc[t] = "cs"
    /\ DropGuard(t)
    /\ first' = [first EXCEPT ![t] = IF guards[t] = 1 THEN done[t] ELSE @]
    /\ pc' = [pc EXCEPT ![t] = IF guards[t] = 1 THEN "idle" ELSE "cs"]
    /\ UNCHANGED <<cell, vis, done, bypassed, unlocks>>

\* thread t panics inside its critical section; unwinding drops the Guard
Unwind(t) ==
    /\ pc[t] \in {"cs", "push", "unwinding"}
    /\ DropGuard(t)
    /\ pc' = [pc EXCEPT ![t] = IF guards[t] = 1 THEN "done" ELSE "unwinding"]
    /\ UNCHANGED <<cell, vis, first, done, bypassed, unlocks>>

\* the closure of thread t returns
Return(t) ==
    /\ pc[t] = "idle"
    /\ pc' = [pc EXCEPT ![t] = "done"]
    /\ UNCHANGED <<locked, cell, flagview, vis, guards, seen, first, done, bypassed, unlocks>>

\* SpinLock::unlock: store(false, Release), whatever the state
Unlock(t) ==
    /\ pc[t] \in {"idle", "cs"}
    /\ unlocks < MaxUnlock
    /\ unlocks' = unlocks + 1
    /\ locked' = FALSE
    /\ flagview' = StoreView(UnlockOrdering, t)
    /\ bypassed' = (bypassed \/ LiveGuards > 0)
    /\ UNCHANGED <<cell, vis, pc, guards, seen, first, done>>

\* ---------------------------------------------------------- specifications
\* one step of thread t that is neither a nested acquisition nor unlock
Step(t) ==
    \/ \E m \in {"swap", "cas"} : Call(t, m)
    \/ SwapAttempt(t)
    \/ SpinHint(t)
    \/ CasAttempt(t)
    \/ CasRetry(t)
    \/ Deref(t)
    \/ PushRead(t)
    \/ PushWrite(t)
    \/ ScopeEnd(t)
    \/ Unwind(t)
    \/ Return(t)

\* the safe API: unlock is never called; a thread may call an acquisition
\* operation again while it owns a Guard
Next ==
    \E t \in Threads :
        \/ Step(t)
        \/ \E m \in {"swap", "cas"} : Reenter(t, m)

Spec == Init /\ [][Next]_vars

\* the whole API: any thread may call unlock, whatever the state
NextBypass ==
    \E t \in Threads :
        \/ Step(t)
        \/ Unlock(t)

SpecBypass == Init /\ [][NextBypass]_vars

TypeOK ==
    /\ locked \in BOOLEAN
    /\ pc \in [Threads -> {"idle", "swap", "spin", "cas", "cas_retry", "cs", "push", "unwinding", "done"}]
    /\ \A t \in Threads : guards[t] \in Nat /\ vis[t] \in 1..Len(cell)
    /\ flagview \in 0..Len(cell)

\* ------------------------------------------------------------ properties
AllFinished == \A t \in Threads : pc[t] = "done"
ItemsOf(v, t) == SelectSeq(v, LAMBDA it : it[1] = t)

\* C1: mutual exclusion.  With threads calling lock_with_swap and
\* lock_with_cas in any mix and unlock never called, at most one Guard is
\* live in every reachable state.
C1_MutualExclusion == LiveGuards <= 1

\* one thread is in its critical section while another has failed an attempt
C1_Witness ==
    \E t, u \in Threads :
        /\ t # u
        /\ guards[t] = 1
        /\ pc[t] \in {"cs", "push"}
        /\ pc[u] \in {"spin", "cas_retry"}

\* the items pushed under one Guard are adjacent and in push order
Contiguous(v) ==
    \A i, j \in 1..Len(v) :
        (i < j /\ v[i][1] = v[j][1] /\ v[i][2] = v[j][2]) =>
            \A k \in i..j :
                /\ v[k][1] = v[i][1]
                /\ v[k][2] = v[i][2]
                /\ v[k][3] = v[i][3] + (k - i)

\* the payload holds every item every thread pushed, each thread's in order
Whole(v) ==
    \A t \in Threads :
        /\ Len(ItemsOf(v, t)) = done[t]
        /\ \A k \in 1..done[t] : ItemsOf(v, t)[k][3] = k

\* the scenario of the tests: thread 1 pushes once, thread 2 twice under one Guard
ScenarioAB ==
    (/\ AllFinished
     /\ done[1] = 1 /\ done[2] = 2 /\ SumOver(done, Threads) = 3
     /\ ItemsOf(value, 2)[1][2] = ItemsOf(value, 2)[2][2]) =>
        \/ value = << <<1, 0, 1>>, <<2, 0, 1>>, <<2, 0, 2>> >>
        \/ value = << <<2, 0, 1>>, <<2, 0, 2>>, <<1, 0, 1>> >>

\* C2: critical sections are atomic with respect to each other.  The payload
\* is the concatenation of the whole push sequences of the critical
\* sections in some order: the items pushed under one Guard are contiguous
\* and in push order, no item is missing, and thread 1 pushing once with
\* thread 2 pushing twice under one Guard ends in [a,b,b] or [b,b,a].
C2_SectionsAtomic == Contiguous(value) /\ Whole(value) /\ ScenarioAB

C2_Witness ==
    /\ AllFinished
    /\ value = << <<2, 0, 1>>, <<2, 0, 2>>, <<1, 0, 1>> >>

\* C3: no lost updates.  Once all threads have finished, the length of the
\* payload is the sum of the numbers of items the threads pushed.
C3_NoLostUpdates == AllFinished => Len(value) = SumOver(done, Threads)

C3_Witness ==
    /\ AllFinished
    /\ Len(value) = MaxPush
    /\ \E t, u \in Threads : t # u /\ done[t] > 0 /\ done[u] > 0

\* thread t's step returns a Guard from the acquisition call it is in
Acquires(t) ==
    /\ SwapAttempt(t) \/ CasAttempt(t)
    /\ guards'[t] = guards[t] + 1

\* C4: release visibility.  After a Guard is dropped the flag is Free and
\* carries every write made so far, an acquisition attempted on the Free flag
\* can succeed, and whatever a thread reads through its Guard is the newest
\* payload, i.e. it contains every write of the previous critical sections.
C4_ReleaseVisibility ==
    /\ ~locked => flagview = Len(cell)
    /\ \A t \in Threads :
        /\ (~locked /\ pc[t] \in {"swap", "cas"}) => ENABLED Acquires(t)
        /\ guards[t] > 0 =>
            /\ vis[t] = Len(cell)
            /\ seen[t] # NoRef => seen[t] = value

\* a thread has read, through its Guard, a payload that holds items pushed
\* by another thread in an earlier critical section
C4_Witness ==
    \E t, u \in Threads :
        /\ t # u
        /\ guards[t] = 1
        /\ pc[t] = "cs"
        /\ seen[t] = value
        /\ done[t] = 0
        /\ done[u] > 0
        /\ guards[u] = 0

\* thread t's step reads or writes the payload
Accesses(t) == Deref(t) \/ PushRead(t) \/ PushWrite(t)

\* C5: every read or write of the payload is made while the flag is Held, by
\* the thread that owns the only live Guard; a thread that holds a reference
\* into the payload is in that situation too.
C5_AccessOnlyByHolder ==
    /\ [](\A t \in Threads : pc[t] = "push" => (locked /\ Owners = {t} /\ LiveGuards = 1))
    /\ [][\A t \in Threads : Accesses(t) => (locked /\ Owners = {t} /\ LiveGuards = 1)]_vars

\* a thread is in the middle of a push while another one is trying to acquire
C5_Witness ==
    \E t, u \in Threads :
        /\ t # u
        /\ pc[t] = "push"
        /\ locked
        /\ InCall(u)

\* C6: dropping a Guard performs the Held -> Free transition exactly once per
\* Guard.  Every step that ends a Guard (end of scope or unwinding) ends
\* exactly one Guard, finds the flag Held and leaves it Free; and the flag
\* goes from Held to Free only in a step that ends exactly one Guard.
C6_DropReleasesOnce ==
    [][/\ \A t \in Threads :
            guards'[t] < guards[t] =>
                (guards'[t] = guards[t] - 1 /\ locked /\ ~locked')
       /\ (locked /\ ~locked') =>
            \E t \in Threads :
                /\ guards'[t] = guards[t] - 1
                /\ \A u \in Threads \ {t} : guards'[u] = guards[u]
      ]_vars

\* a thread has pushed under a Guard; the Guard is gone and the flag is Free
C6_Witness ==
    \E t \in Threads :
        /\ done[t] > 0
        /\ guards[t] = 0
        /\ pc[t] \in {"idle", "done"}
        /\ LiveGuards = 0
        /\ ~locked

\* thread t's step is a failed attempt: it takes the retry branch of its loop
FailsAttempt(t) ==
    \/ pc[t] = "swap" /\ pc'[t] = "spin"
    \/ pc[t] = "cas" /\ pc'[t] = "cas_retry"

\* C7 as stated: neither acquisition operation ever takes its retry branch
\* while the flag is Free.
C7_NeverRetriesWhileFree ==
    [][\A t \in Threads : FailsAttempt(t) => locked]_vars

\* C7 as amended: lock_with_swap returns a Guard on the attempt it makes
\* while the flag is Free and takes its spin branch only when the flag was
\* Held; an attempt of lock_with_cas made while the flag is Free either
\* returns a Guard or fails spuriously, and a spurious failure changes
\* nothing but the position of the caller.
C7_NoContention ==
    [][\A t \in Threads :
        /\ (pc[t] = "swap" /\ pc'[t] = "spin") => locked
        /\ (pc[t] = "swap" /\ pc'[t] # "swap" /\ ~locked) =>
                (pc'[t] = "cs" /\ guards'[t] = guards[t] + 1 /\ locked')
        /\ (pc[t] = "cas" /\ pc'[t] # "cas" /\ ~locked) =>
                \/ pc'[t] = "cs" /\ guards'[t] = guards[t] + 1 /\ locked'
                \/ /\ pc'[t] = "cas_retry"
                   /\ UNCHANGED <<locked, cell, flagview, vis, guards, seen, first, done>>
      ]_vars

\* a thread has acquired the fresh lock while every other thread is idle
C7_Witness ==
    \E t \in Threads :
        /\ pc[t] = "cs"
        /\ guards[t] = 1
        /\ locked
        /\ Len(cell) = 1
        /\ \A u \in Threads \ {t} : pc[u] = "idle"

\* thread t is inside an acquisition call while it owns a live Guard
Nested(t) == InCall(t) /\ guards[t] >= 1

\* C8: no reentrancy.  A thread that calls an acquisition operation while it
\* owns a live Guard never returns from that call: from then on it is in the
\* call, it gets no second Guard, and the flag is Held.
C8_NoReentrancy ==
    /\ [](\A t \in Threads : Nested(t) => locked)
    /\ [][\A t \in Threads :
            Nested(t) =>
                /\ pc'[t] \in {"swap", "spin", "cas", "cas_retry"}
                /\ guards'[t] = guards[t]
                /\ locked'
         ]_vars

\* a thread that pushed under its Guard has called again and failed an attempt
C8_Witness ==
    \E t \in Threads :
        /\ guards[t] = 1
        /\ pc[t] \in {"spin", "cas_retry"}
        /\ done[t] > 0

\* C9: bypass hazard.  Two Guards are live at once only after unlock was
\* called while a Guard was live; the witness is the state the claim says is
\* reachable then: two threads, each with a live Guard, both in the middle
\* of a push.
C9_BypassHazard == LiveGuards >= 2 => (bypassed /\ unlocks > 0)

C9_Witness ==
    \E t, u \in Threads :
        /\ t # u
        /\ guards[t] = 1 /\ guards[u] = 1
        /\ pc[t] = "push" /\ pc[u] = "push"
        /\ bypassed

\* C10: an acquisition call waits as long as the flag is Held.  A thread in
\* lock_with_swap or lock_with_cas leaves the call only by getting a Guard,
\* which happens only in a step that found the flag Free and made it Held;
\* while the flag is Held the thread stays in the call.
C10_WaitsWhileHeld ==
    [][\A t \in Threads :
        InCall(t) =>
            /\ \/ pc'[t] \in {"swap", "spin", "cas", "cas_retry"} /\ guards'[t] = guards[t]
               \/ pc'[t] = "cs" /\ guards'[t] = guards[t] + 1
            /\ guards'[t] > guards[t] => (~locked /\ locked')
            /\ locked => pc'[t] \in {"swap", "spin", "cas", "cas_retry"}
      ]_vars

\* a thread is waiting in an acquisition call while another thread, which has
\* already pushed under its Guard, still owns it
C10_Witness ==
    \E t, u \in Threads :
        /\ t # u
        /\ InCall(t) /\ guards[t] = 0
        /\ pc[t] \in {"spin", "cas_retry"}
        /\ guards[u] = 1 /\ pc[u] = "cs" /\ done[u] > 0
        /\ locked

\* ------------------------------------------------- fair specifications
\* thread t's step returns a Guard from lock_with_cas
CasSucceeds(t) == CasAttempt(t) /\ guards'[t] = guards[t] + 1

\* the safe API without nested acquisition
NextFlat == \E t \in Threads : Step(t)

\* fair scheduling: every thread that can take a step eventually takes one,
\* and a weak compare-exchange that finds the flag Free again and again does
\* not fail spuriously for ever
FairSpec ==
    /\ Init
    /\ [][NextFlat]_vars
    /\ \A t \in Threads : WF_vars(Step(t))
    /\ \A t \in Threads : SF_vars(CasSucceeds(t))

\* the thread the scheduler works against
Victim == NThreads

\* the steps of the victim: it calls an acquisition operation and keeps
\* attempting, but is scheduled for an attempt only while the flag is Held
VictimStep ==
    \/ \E m \in {"swap", "cas"} : Call(Victim, m)
    \/ locked /\ SwapAttempt(Victim)
    \/ SpinHint(Victim)
    \/ locked /\ CasAttempt(Victim)
    \/ CasRetry(Victim)

\* the steps of a thread that acquires and releases again and again
CyclerStep(t) ==
    \/ \E m \in {"swap", "cas"} : Call(t, m)
    \/ SwapAttempt(t)
    \/ SpinHint(t)
    \/ CasAttempt(t)
    \/ CasRetry(t)
    \/ Deref(t)
    \/ PushRead(t)
    \/ PushWrite(t)
    \/ ScopeEnd(t)

NextStarve ==
    \/ VictimStep
    \/ \E t \in Threads \ {Victim} : CyclerStep(t)

\* one fair schedule of the safe API: every thread keeps taking steps, but
\* the victim's attempts fall into the periods in which the flag is Held
SpecStarve ==
    /\ Init
    /\ [][NextStarve]_vars
    /\ SF_vars(VictimStep)
    /\ \A t \in Threads \ {Victim} : WF_vars(CyclerStep(t)) /\ SF_vars(CasSucceeds(t))

C12_New ==
    /\ ~locked /\ value = InitialValue /\ LiveGuards = 0
    /\ [](\A t \in Threads :
            /\ (Len(cell) = 1 /\ ~locked /\ pc[t] \in {"swap", "cas"}) => ENABLED Acquires(t)
            /\ (Len(cell) = 1 /\ guards[t] > 0 /\ seen[t] # NoRef) => seen[t] = InitialValue)

\* the first Guard of the fresh lock has been obtained and the payload read
\* through it, before any other thread did anything
C12_Witness ==
    \E t \in Threads :
        /\ guards[t] = 1
        /\ seen[t] = InitialValue
        /\ Len(cell) = 1
        /\ \A u \in Threads \ {t} : pc[u] = "idle" /\ vis[u] = 1
        /\ \A u \in Threads : done[u] = 0

\* thread t's step drops a Guard
Drops(t) == ScopeEnd(t) \/ Unwind(t)

\* C13: every change of the flag is Free -> Held in a step in which an
\* attempt of lock_with_swap or lock_with_cas returns a Guard, or
\* Held -> Free in a step that drops a Guard or calls unlock; a failed
\* attempt leaves the flag as it was.
C13_FlagTransitions ==
    [][/\ (~locked /\ locked') => \E t \in Threads : Acquires(t)
       /\ (locked /\ ~locked') => \E t \in Threads : Drops(t) \/ Unlock(t)
       /\ \A t \in Threads : FailsAttempt(t) => locked' = locked
      ]_vars

\* unlock has taken the flag from Held to Free under a live Guard, and a
\* waiter has failed an attempt before
C13_Witness ==
    /\ bypassed
    /\ ~locked
    /\ LiveGuards = 1
    /\ \E t \in Threads : pc[t] \in {"spin", "cas_retry"}

\* C14: with unlock never called the flag tracks Guard ownership: it is Held
\* exactly when one Guard is live and Free exactly when none is, and only a
\* step that drops a Guard takes it from Held to Free.
C14_FlagTracksGuard ==
    /\ [](locked <=> LiveGuards = 1)
    /\ [](~locked <=> LiveGuards = 0)
    /\ [][(locked /\ ~locked') => \E t \in Threads : Drops(t)]_vars

\* the flag is Held by a second owner after the first one dropped its Guard
C14_Witness ==
    \E t, u \in Threads :
        /\ t # u
        /\ locked
        /\ guards[t] = 1
        /\ guards[u] = 0
        /\ done[u] > 0
        /\ pc[u] = "idle"

\* unlock called as its contract demands: no Guard is live and no thread
\* holds a reference into the payload
UnlockInContract(t) ==
    /\ LiveGuards = 0
    /\ \A u \in Threads : seen[u] = NoRef /\ pc[u] # "push"
    /\ Unlock(t)

NextContract ==
    \E t \in Threads :
        \/ Step(t)
        \/ UnlockInContract(t)

\* the whole API with unlock called only within its contract
SpecContract == Init /\ [][NextContract]_vars

\* C15: when unlock is called only in states where no Guard is live and no
\* thread is accessing the payload, at most one Guard is live in every
\* reachable state, also with other threads inside lock_with_swap or
\* lock_with_cas when unlock is called.
C15_ContractKeepsExclusion == LiveGuards <= 1 /\ ~bypassed

\* unlock has been called while another thread was inside an acquisition
\* call, and a thread owns the Guard while another one waits
C15_Witness ==
    /\ unlocks > 0
    /\ \E t, u \in Threads :
        /\ t # u
        /\ guards[t] = 1
        /\ pc[u] \in {"spin", "cas_retry"}

\* C16: both acquisition loops emit the spin hint on failure: after a failed
\* attempt of lock_with_swap or of lock_with_cas the thread is at the spin
\* hint, which it executes before its next attempt.
C16_SpinHintOnFailure ==
    [][\A t \in Threads : FailsAttempt(t) => pc'[t] = "spin"]_vars

\* C17: the two acquisition algorithms are interchangeable.  An attempt of
\* either loop can return a Guard exactly when the flag is Free; when it
\* does, its effect on the flag, the Guard owner, the payload and the
\* caller's view is the same for both; when it fails, flag, owner and payload
\* are unchanged; and the only failure on a Free flag is a spurious failure
\* of the weak compare-exchange.
C17_Interchangeable ==
    /\ [](\A t \in Threads :
            pc[t] \in {"swap", "cas"} => (ENABLED Acquires(t) <=> ~locked))
    /\ [][\A t \in Threads :
            (SwapAttempt(t) \/ CasAttempt(t)) =>
                IF guards'[t] > guards[t]
                THEN /\ ~locked /\ locked'
                     /\ guards' = [guards EXCEPT ![t] = @ + 1]
                     /\ pc'[t] = "cs"
                     /\ vis'[t] = Max(vis[t], flagview)
                     /\ UNCHANGED <<cell, flagview, seen, first, done>>
                ELSE /\ UNCHANGED <<locked, guards, cell, flagview, seen, first, done>>
                     /\ ~locked => pc[t] = "cas"
         ]_vars

\* with the flag Free after a critical section, one waiter is in the retry
\* branch of lock_with_cas and another in the spin branch of lock_with_swap
C17_Witness ==
    \E t, u \in Threads :
        /\ pc[t] = "cas_retry"
        /\ pc[u] = "spin"
        /\ ~locked
        /\ Len(value) > 0

\* some thread is inside lock_with_swap or lock_with_cas
SomeWaiter == \E t \in Threads : InCall(t)

\* C18: lock-level progress.  Under fair scheduling, with every Guard
\* dropped eventually and no nested acquisition, whenever a thread is inside
\* an acquisition call some thread eventually obtains a Guard: a Held flag
\* with waiters becomes Free with waiters, and a Free flag with waiters
\* becomes Held, which only a successful attempt does.
C18_LockProgress ==
    /\ (SomeWaiter /\ locked) ~> (SomeWaiter /\ ~locked)
    /\ (SomeWaiter /\ ~locked) ~> (locked /\ LiveGuards = 1)

\* two threads have failed an attempt and the flag is Free again
C18_Witness ==
    \E t, u \in Threads :
        /\ t # u
        /\ pc[t] \in {"spin", "cas_retry"}
        /\ pc[u] \in {"spin", "cas_retry"}
        /\ ~locked
        /\ LiveGuards = 0

\* thread t's step is one of the lock operations: an attempt of either
\* loop, the drop of a Guard, or unlock
LockOperation(t) == SwapAttempt(t) \/ CasAttempt(t) \/ Drops(t) \/ Unlock(t)

\* C19: the lock operations never modify the payload.  An attempt of either
\* loop, failed or successful, the drop of a Guard and unlock leave the
\* payload as it was; a failed attempt also leaves the flag and the Guard
\* owners as they were; the payload changes only by a write of a thread that
\* owns a live Guard.
C19_LockOpsFramePayload ==
    [][/\ \A t \in Threads : LockOperation(t) => cell' = cell
       /\ \A t \in Threads : FailsAttempt(t) => UNCHANGED <<locked, guards, cell>>
       /\ cell' # cell => \E t \in Threads : PushWrite(t) /\ guards[t] > 0
      ]_vars

\* after a critical section that pushed and an unlock, the payload is still
\* what was pushed, and a waiter has failed an attempt
C19_Witness ==
    /\ unlocks > 0
    /\ Len(value) > 0
    /\ LiveGuards = 0
    /\ \E t \in Threads : pc[t] \in {"spin", "cas_retry"}
====
